---- MODULE Spec2Model ----
(***************************************************************************)
(* ConnectionClient of src/app.js (the unified WebSocket + Socket.IO       *)
(* connection manager) together with the parts of its environment it      *)
(* talks to: App.state (the configuration it reads), the platform          *)
(* transports it creates, and the platform timers it sets.                 *)
(*                                                                         *)
(* Strings the code inspects character by character (connection targets)   *)
(* are sequences of one-character strings.                                 *)
(***************************************************************************)
EXTENDS Integers, Sequences, FiniteSets, TLC

VARIABLES
    connection,      \* this.connection: 0 (null) or the index of a transport
    connectionType,  \* this.connectionType: "null", "websocket", "socketio"
    reconnectTimer,  \* this._reconnectTimer: 0 (null) or a timer handle
    manualClose,     \* this._manualClose
    attempt,         \* this._attempt
    serverUrl,       \* App.state.serverUrl
    autoReconnect,   \* App.state.autoReconnect
    reconnectDelay,  \* App.state.reconnectDelay
    ioLoaded,        \* typeof io !== 'undefined'
    infoProbe,       \* App.connect(): "idle", or "pending" while it awaits /info
    registry,        \* Actions: the handler registered under each name, or "none"
    transports,      \* every transport the client created, in creation order
    timers,          \* the platform's pending timeouts: records [id, delay]
    nextTimerId,     \* the handle the next setTimeout returns
    lastCaller,      \* the most recent explicit caller operation
    last             \* what the most recent step did

vars == <<connection, connectionType, reconnectTimer, manualClose, attempt,
          serverUrl, autoReconnect, reconnectDelay, ioLoaded, infoProbe, registry,
          transports,
          timers, nextTimerId, lastCaller, last>>

clientVars == <<connection, connectionType, reconnectTimer, manualClose, attempt>>
configVars == <<serverUrl, autoReconnect, reconnectDelay, ioLoaded, infoProbe, registry>>

(***************************************************************************)
(* Bounds of the model                                                     *)
(***************************************************************************)
MaxTransports == 2
MaxTimers == 2
MaxAttempt == 28

(***************************************************************************)
(* Program constants                                                       *)
(***************************************************************************)
DefaultDelay == 1500
JitterRange == 250
BackoffCap == 8000
BackoffStep == 300
MinDelay == 250
MaxDelay == 60000
CloseNormal == 1000
MaxPort == 65535

(***************************************************************************)
(* Connection targets                                                      *)
(***************************************************************************)
UrlEmpty == << >>
UrlWs == <<"w","s",":","/","/","h","/","x">>
UrlHttps == <<"h","t","t","p","s",":","/","/","h">>
UrlWsBadPort == <<"w","s",":","/","/","h",":","9","9","9","9","9">>
UrlHttpsBadPort == <<"h","t","t","p",":","/","/","h",":","9","9","9","9","9">>

Targets == {UrlEmpty, UrlWs, UrlHttps, UrlWsBadPort, UrlHttpsBadPort}

\* further targets the classification is applied to: a secure WebSocket
\* target, an HTTP-family target in capitals, a WebSocket target whose path
\* names socket.io, and text that is no URL at all
UrlWss == <<"w","s","s",":","/","/","h">>
UrlUpperHttps == <<"H","T","T","P","S",":","/","/","h">>
UrlHinted == <<"w","s",":","/","/","h","/","s","o","c","k","e","t",".","i","o">>
UrlGarbage == <<"x">>

\* the targets that are not HTTP-family and carry no socket.io hint
LineSocketTargets == {UrlWs, UrlWss, UrlWsBadPort, UrlGarbage}

\* the HTTP-family targets and the one carrying the socket.io hint
EventSocketTargets == {UrlHttps, UrlHttpsBadPort, UrlUpperHttps, UrlHinted}

ClassifyTargets == LineSocketTargets \cup EventSocketTargets

(***************************************************************************)
(* String helpers: String.prototype.startsWith / includes / toLowerCase    *)
(***************************************************************************)
StartsWith(s, p) ==
    /\ Len(p) <= Len(s)
    /\ \A i \in 1..Len(p) : s[i] = p[i]

Includes(s, p) ==
    \E k \in 0..(Len(s) - Len(p)) : \A i \in 1..Len(p) : s[k + i] = p[i]

LowerChar(c) ==
    CASE c = "H" -> "h" [] c = "T" -> "t" [] c = "P" -> "p" [] c = "S" -> "s"
      [] c = "W" -> "w" [] c = "O" -> "o" [] c = "C" -> "c" [] c = "K" -> "k"
      [] c = "E" -> "e" [] c = "I" -> "i" [] c = "X" -> "x"
      [] OTHER -> c

ToLowerCase(s) == [i \in 1..Len(s) |-> LowerChar(s[i])]

StrSocketIo == <<"s","o","c","k","e","t",".","i","o">>
StrHttp == <<"h","t","t","p",":","/","/">>
StrHttps == <<"h","t","t","p","s",":","/","/">>
StrWs == <<"w","s",":","/","/">>
StrWss == <<"w","s","s",":","/","/">>

\* a classification that looks at the scheme only
DetectBySchemeOnly(url) ==
    LET lowerUrl == ToLowerCase(url) IN
    IF StartsWith(lowerUrl, StrHttp) \/ StartsWith(lowerUrl, StrHttps)
    THEN "socketio"
    ELSE "websocket"

\* _detectConnectionType(url)
DetectConnectionType(url) ==
    LET lowerUrl == ToLowerCase(url) IN
    IF Includes(lowerUrl, StrSocketIo) \/ StartsWith(lowerUrl, StrHttp)
         \/ StartsWith(lowerUrl, StrHttps)
    THEN "socketio"
    ELSE "websocket"

(***************************************************************************)
(* The platform's URL parser, as far as the constructors depend on it:     *)
(* scheme "://" host [":" port] ["/" path], host not empty, port a number  *)
(* no larger than 65535.                                                   *)
(***************************************************************************)
SepAt(s, k) == k + 2 <= Len(s) /\ s[k] = ":" /\ s[k + 1] = "/" /\ s[k + 2] = "/"

HasScheme(s) == \E k \in 2..Len(s) : SepAt(s, k)

SchemeEnd(s) == CHOOSE k \in 2..Len(s) : SepAt(s, k) /\ \A m \in 2..(k - 1) : ~SepAt(s, m)

\* the text after "://"
AfterScheme(s) == SubSeq(s, SchemeEnd(s) + 3, Len(s))

\* the authority: up to the first "/"
Authority(s) ==
    LET r == AfterScheme(s)
        cut == IF \E i \in 1..Len(r) : r[i] = "/"
               THEN (CHOOSE i \in 1..Len(r) : r[i] = "/" /\ \A m \in 1..(i - 1) : r[m] # "/") - 1
               ELSE Len(r)
    IN SubSeq(r, 1, cut)

HostOf(a) ==
    IF \E i \in 1..Len(a) : a[i] = ":"
    THEN SubSeq(a, 1, (CHOOSE i \in 1..Len(a) : a[i] = ":" /\ \A m \in 1..(i - 1) : a[m] # ":") - 1)
    ELSE a

PortOf(a) == SubSeq(a, Len(HostOf(a)) + 2, Len(a))

DigitValue(c) ==
    CASE c = "0" -> 0 [] c = "1" -> 1 [] c = "2" -> 2 [] c = "3" -> 3 [] c = "4" -> 4
      [] c = "5" -> 5 [] c = "6" -> 6 [] c = "7" -> 7 [] c = "8" -> 8 [] c = "9" -> 9
      [] OTHER -> -1

RECURSIVE DecimalValue(_)
DecimalValue(d) ==
    IF d = << >> THEN 0
    ELSE 10 * DecimalValue(SubSeq(d, 1, Len(d) - 1)) + DigitValue(d[Len(d)])

UrlParses(s) ==
    /\ HasScheme(s)
    /\ LET a == Authority(s) IN
         /\ HostOf(a) # << >>
         /\ \A i \in 1..Len(PortOf(a)) : DigitValue(PortOf(a)[i]) >= 0
         /\ DecimalValue(PortOf(a)) <= MaxPort

\* new WebSocket(url) throws a SyntaxError when the url does not parse
WebSocketCtorThrows(url) == ~UrlParses(url)

\* _connectSocketIO: ws:// -> http://, wss:// -> https://
IoUrl(url) ==
    IF StartsWith(url, StrWs) THEN StrHttp \o SubSeq(url, Len(StrWs) + 1, Len(url))
    ELSE IF StartsWith(url, StrWss) THEN StrHttps \o SubSeq(url, Len(StrWss) + 1, Len(url))
    ELSE url

\* `${urlObj.protocol}//${urlObj.host}`
BaseUrl(ioUrl) ==
    ToLowerCase(SubSeq(ioUrl, 1, SchemeEnd(ioUrl) + 2)) \o ToLowerCase(Authority(ioUrl))

(***************************************************************************)
(* Transports and timers of the platform                                   *)
(***************************************************************************)
NewTransport(kind, url) == [kind |-> kind, state |-> "CONNECTING", url |-> url]

TransportIds == 1..Len(transports)

\* a transport that is connecting or open
Live(tr) == tr.state \in {"CONNECTING", "OPEN"}

LiveIds == {t \in TransportIds : Live(transports[t])}

\* clearTimeout(handle)
ClearTimeout(ts, h) == {tm \in ts : tm.id # h}

\* setTimeout(cb, delay) returning handle id
SetTimeout(ts, id, delay) == ts \cup {[id |-> id, delay |-> delay]}

\* Math.random() * 250 lies in [0, 250): the two ends of the range
JitterValues == {0, JitterRange - 1}

Min(a, b) == IF a < b THEN a ELSE b
Max(a, b) == IF a > b THEN a ELSE b

\* clamp(n, a, b)
Clamp(n, a, b) == Min(Max(n, a), b)

(***************************************************************************)
(* scheduleReconnect                                                       *)
(***************************************************************************)
\* const base = Number(App.state.reconnectDelay) || 1500
BaseDelay(cfg) == IF cfg = 0 THEN DefaultDelay ELSE cfg

\* a backoff that keeps growing
BackoffUncapped(a) == a * BackoffStep

\* the backoff taken from the counter after its increment
BackoffAfterIncrement(a) == Min(BackoffCap, (a + 1) * BackoffStep)

\* const backoff = Math.min(8000, this._attempt * 300)
Backoff(a) == Min(BackoffCap, a * BackoffStep)

\* const delay = base + jitter + backoff
Delay(cfg, jitter, a) == BaseDelay(cfg) + jitter + Backoff(a)

\* scheduleReconnect without its clearTimeout
ScheduleClearMissing(ts, h) == ts

\* clearTimeout(this._reconnectTimer) at the head of scheduleReconnect
ScheduleClear(ts, h) == ClearTimeout(ts, h)

\* scheduleReconnect(), run with ts the timers pending when it is called
ScheduleReconnect(ts, jitter) ==
    /\ nextTimerId <= MaxTimers
    /\ timers' = SetTimeout(ScheduleClear(ts, reconnectTimer), nextTimerId,
                            Delay(reconnectDelay, jitter, attempt))
    /\ reconnectTimer' = nextTimerId
    /\ nextTimerId' = nextTimerId + 1
    /\ attempt' = attempt + 1

\* if (!this._manualClose && App.state.autoReconnect)
ShouldReconnect(mc, ar) == ~mc /\ ar

\* whether this step called scheduleReconnect while the timer of the handle
\* was still among the pending timers ts
Rescheduled(ts) ==
    /\ nextTimerId' # nextTimerId
    /\ \E tm \in ts : tm.id = reconnectTimer

(***************************************************************************)
(* Actions: the registry as the module leaves it (built-ins are defined    *)
(* when it loads)                                                          *)
(***************************************************************************)
ActionNames == {"ws:send", "custom:hello", "custom:other"}

BuiltIns == [n \in ActionNames |-> IF n = "ws:send" THEN "builtin" ELSE "none"]

(***************************************************************************)
(* What the most recent step did (observer callbacks, warnings, results)   *)
(***************************************************************************)
Quiet == [op |-> "init", ret |-> "none", warn |-> FALSE, obs |-> "none",
          threw |-> FALSE, sched |-> FALSE, closed |-> FALSE, code |-> 0,
          held |-> "none", text |-> "none", handed |-> << >>, tx |-> << >>,
          attemptBefore |-> 0, from |-> "none",
          data |-> [type |-> "none", body |-> << >>],
          delivered |-> << >>, log |-> << >>, info |-> << >>,
          probe |-> "none", replaced |-> FALSE, was |-> "none",
          event |-> << >>, args |-> << >>, ran |-> << >>, name |-> "none"]

Init ==
    /\ connection = 0
    /\ connectionType = "null"
    /\ reconnectTimer = 0
    /\ manualClose = FALSE
    /\ attempt = 0
    /\ serverUrl \in Targets
    /\ autoReconnect = TRUE
    /\ reconnectDelay = DefaultDelay
    /\ ioLoaded = TRUE
    /\ infoProbe = "idle"
    /\ registry = BuiltIns
    /\ transports = << >>
    /\ timers = {}
    /\ nextTimerId = 1
    /\ lastCaller = [op |-> "none", effective |-> "none", n |-> 0, pending |-> FALSE, threw |-> FALSE]
    /\ last = Quiet

(***************************************************************************)
(* connect()                                                               *)
(***************************************************************************)
\* connect() without its test for an empty target
ConnectOutcomeUnguarded(url) ==
    IF DetectConnectionType(url) = "socketio"
    THEN IF ~UrlParses(IoUrl(url)) THEN "threw"
         ELSE IF ~ioLoaded THEN "noio"
         ELSE "created"
    ELSE IF WebSocketCtorThrows(url) THEN "threw" ELSE "created"

\* which way connect() goes for the configured target
ConnectOutcome(url) ==
    IF url = UrlEmpty THEN "nourl"
    ELSE IF DetectConnectionType(url) = "socketio"
         THEN IF ~UrlParses(IoUrl(url)) THEN "threw"
              ELSE IF ~ioLoaded THEN "noio"
              ELSE "created"
         ELSE IF WebSocketCtorThrows(url) THEN "threw" ELSE "created"

\* the target the new transport is opened with
OpenedUrl(kind, url) == IF kind = "socketio" THEN BaseUrl(IoUrl(url)) ELSE url

\* connect() leaving the flag as it found it
ConnectManualCloseKept(mc) == mc

\* this._manualClose = false at the head of connect()
ConnectManualClose(mc) == FALSE

\* the catch blocks of _connectWebSocket and _connectSocketIO
CatchSchedules(mc, ar) == TRUE

\* connect() with getUrl() returning url, run with ts the timers pending when
\* it is called
ConnectFor(url, ts, jitter) ==
    LET out == ConnectOutcome(url)
        kind == DetectConnectionType(url)
    IN
    IF out = "nourl"
    THEN /\ timers' = ts
         /\ UNCHANGED <<clientVars, nextTimerId, transports>>
    ELSE /\ manualClose' = ConnectManualClose(manualClose)
         /\ connectionType' = kind
         /\ IF out = "created"
            THEN /\ Len(transports) < MaxTransports
                 /\ transports' = Append(transports, NewTransport(kind, OpenedUrl(kind, url)))
                 /\ connection' = Len(transports) + 1
                 /\ timers' = ts
                 /\ UNCHANGED <<reconnectTimer, attempt, nextTimerId>>
            ELSE IF out = "threw" /\ CatchSchedules(manualClose', autoReconnect)
            THEN /\ ScheduleReconnect(ts, jitter)
                 /\ UNCHANGED <<connection, transports>>
            ELSE /\ timers' = ts
                 /\ UNCHANGED <<connection, transports, reconnectTimer, attempt, nextTimerId>>

\* a connect() that keeps to the target of the transport it holds
ConnectBodyStale(ts, jitter) ==
    ConnectFor(IF connection # 0 THEN transports[connection].url ELSE serverUrl,
               ts, jitter)

\* connect(): getUrl() is App.state.serverUrl
ConnectBody(ts, jitter) == ConnectFor(serverUrl, ts, jitter)

ConnectLastFor(op, url) ==
    [Quiet EXCEPT !.op = op,
                  !.warn = (ConnectOutcome(url) = "nourl"),
                  !.sched = (nextTimerId' # nextTimerId),
                  !.replaced = (op # "timer" /\ Rescheduled(timers)),
                  !.attemptBefore = attempt]

ConnectLast(op) == ConnectLastFor(op, serverUrl)

\* an explicit connect() call by the caller
Connect(J) ==
    /\ \E j \in J : ConnectBody(timers, j)
    /\ last' = ConnectLast("connect")
    /\ lastCaller' = [op |-> "connect",
                      effective |-> IF ConnectOutcome(serverUrl) = "nourl"
                                    THEN lastCaller.effective ELSE "connect",
                      n |-> 0, pending |-> FALSE, threw |-> FALSE]
    /\ UNCHANGED <<configVars>>

\* the reconnect timer fires: setTimeout(() => this.connect(), delay)
TimerFire(J) ==
    /\ \E tm \in timers : \E j \in J : ConnectBody(timers \ {tm}, j)
    /\ last' = ConnectLast("timer")
    /\ UNCHANGED <<configVars, lastCaller>>

(***************************************************************************)
(* disconnect()                                                            *)
(***************************************************************************)
\* disconnect() leaving the flag as it found it
DisconnectManualCloseKept(mc) == mc

\* this._manualClose = true
DisconnectManualClose(mc) == TRUE

\* disconnect() without its clearTimeout
DisconnectClearMissing(ts, h) == ts

\* clearTimeout(this._reconnectTimer) in disconnect()
DisconnectClear(ts, h) == ClearTimeout(ts, h)

\* readyState === WebSocket.OPEN || readyState === WebSocket.CONNECTING; a
\* Socket.IO socket has no readyState
WsOpenOrConnecting(tr) == tr.kind = "websocket" /\ tr.state \in {"OPEN", "CONNECTING"}

\* this.connection.disconnect() throws a TypeError on a WebSocket, which has
\* no such method
DisconnectThrows ==
    /\ connection # 0
    /\ connectionType = "socketio"
    /\ transports[connection].kind # "socketio"

\* the transport disconnect() closes, 0 when it closes none
DisconnectCloses ==
    IF connection = 0 \/ DisconnectThrows THEN 0
    ELSE IF connectionType = "socketio" THEN connection
    ELSE IF connectionType = "websocket" /\ WsOpenOrConnecting(transports[connection])
         THEN connection
    ELSE 0

\* the state a transport is in after the client closed it: a WebSocket is
\* closing until its close event; socket.disconnect() ends a socket at once
AfterClientClose(tr) ==
    IF tr.kind = "websocket" THEN "CLOSING" ELSE "CLOSED"

\* this.connection = null, reached unless the close call threw
DisconnectReference(c) == IF DisconnectThrows THEN c ELSE 0

Disconnect ==
    LET c == DisconnectCloses IN
    /\ manualClose' = DisconnectManualClose(manualClose)
    /\ timers' = DisconnectClear(timers, reconnectTimer)
    /\ transports' = IF c = 0 THEN transports
                     ELSE [transports EXCEPT ![c].state = AfterClientClose(transports[c])]
    /\ connection' = DisconnectReference(connection)
    \* socket.disconnect() on a connected socket emits "disconnect" at once; its
    \* handler calls onClose and, _manualClose being true, schedules nothing
    /\ last' = [Quiet EXCEPT !.op = "disconnect",
                             !.held = IF connection = 0 THEN "none"
                                      ELSE transports[connection].state,
                             !.closed = (c # 0 /\ Live(transports[c])),
                             !.attemptBefore = attempt,
                             !.code = IF c # 0 /\ WsOpenOrConnecting(transports[c])
                                      THEN CloseNormal ELSE 0,
                             !.threw = DisconnectThrows,
                             !.obs = IF c # 0 /\ transports[c].kind = "socketio"
                                        /\ transports[c].state = "OPEN"
                                     THEN "onClose" ELSE "none"]
    /\ lastCaller' = [op |-> "disconnect", effective |-> "disconnect",
                      n |-> Len(transports), pending |-> (timers # {}),
                      threw |-> DisconnectThrows]
    /\ UNCHANGED <<connectionType, reconnectTimer, attempt, nextTimerId, configVars>>

(***************************************************************************)
(* Transport notifications: WebSocket                                      *)
(***************************************************************************)
IsWs(t) == transports[t].kind = "websocket"
IsSio(t) == transports[t].kind = "socketio"

SetState(t, st) == [transports EXCEPT ![t].state = st]

\* this._attempt = 0 in the open / connect handlers
OpenAttempt(a) == 0

\* ws "open"
WsOpen(t) ==
    /\ IsWs(t) /\ transports[t].state = "CONNECTING"
    /\ transports' = SetState(t, "OPEN")
    /\ attempt' = OpenAttempt(attempt)
    /\ last' = [Quiet EXCEPT !.op = "open", !.obs = "onOpen", !.attemptBefore = attempt]
    /\ UNCHANGED <<connection, connectionType, reconnectTimer, manualClose, timers,
                   nextTimerId, configVars, lastCaller>>

\* inbound payloads (ev.data): a text frame carries a string, a binary frame
\* a Blob; a Socket.IO message carries a string or an object
TextPayload(body) == [type |-> "text", body |-> body]
BinaryPayload == [type |-> "binary", body |-> << >>]

TxtLog == <<"l","o","g",":","a",":","b">>
TxtWarn == <<"w","a","r","n",":","w">>
TxtError == <<"e","r","r","o","r",":","e">>
TxtName == <<"n","a","m","e",":","n">>
TxtFirmware == <<"f","i","r","m","w","a","r","e",":","f">>
TxtUptime == <<"u","p","t","i","m","e",":","u">>
TxtOtherKey == <<"k",":","v">>
TxtNoColon == <<"p">>
TxtEmpty == << >>

\* the payloads of the traffic specification
WsData == {TextPayload(TxtLog)}

\* the payloads of the message specification
Payloads ==
    {TextPayload(b) : b \in {TxtLog, TxtWarn, TxtError, TxtName, TxtFirmware,
                              TxtUptime, TxtOtherKey, TxtNoColon, TxtEmpty}} \cup {BinaryPayload}

\* String(blob) and JSON.stringify({})
StrObjectBlob == <<"[","o","b","j","e","c","t"," ","B","l","o","b","]">>
StrEmptyObject == <<"{","}">>

\* a handler that replaces an empty payload by a placeholder
WsTextOrPlaceholder(d) ==
    IF d.type = "text" /\ d.body # << >> THEN d.body ELSE StrObjectBlob

\* String(ev.data || ""): a falsy payload (the empty string) becomes ""
WsText(d) ==
    IF d.type = "text"
    THEN IF d.body = << >> THEN << >> ELSE d.body
    ELSE StrObjectBlob

\* typeof data === 'string' ? data : JSON.stringify(data)
SioText(d) == IF d.type = "text" THEN d.body ELSE StrEmptyObject

(***************************************************************************)
(* Custom Socket.IO events: socket.onAny                                   *)
(***************************************************************************)
StrMessage == <<"m","e","s","s","a","g","e">>
StrLed == <<"l","e","d">>

\* the names of the custom events the server emits
CustomEvents == {StrLed}

\* the argument lists of the custom events
ArgLists ==
    {<<TextPayload(TxtLog)>>, <<BinaryPayload>>,
     <<TextPayload(<<"a">>), TextPayload(<<"b">>)>>, << >>}

\* JSON.stringify of one argument: a string or an empty object
JsonOf(p) == IF p.type = "text" THEN <<"\"">> \o p.body \o <<"\"">> ELSE StrEmptyObject

\* the elements of a JSON array, separated by commas
RECURSIVE JsonElements(_)
JsonElements(args) ==
    IF args = << >> THEN << >>
    ELSE IF Len(args) = 1 THEN JsonOf(args[1])
    ELSE JsonOf(args[1]) \o <<",">> \o JsonElements(Tail(args))

\* an envelope that leaves the event name out: JSON.stringify(args)
EnvelopeDataOnly(eventName, args) == <<"[">> \o JsonElements(args) \o <<"]">>

\* JSON.stringify({ event: eventName, data: args })
Envelope(eventName, args) ==
    <<"{","\"","e","v","e","n","t","\"",":","\"">> \o eventName \o <<"\"",",","\"","d","a","t","a","\"",":","[">>
        \o JsonElements(args) \o <<"]","}">>

\* args.length === 1 && typeof args[0] === 'string'
SingleString(args) == Len(args) = 1 /\ args[1].type = "text"

\* the text onAny hands to onMessage for a custom event
CustomText(eventName, args) ==
    IF SingleString(args) THEN args[1].body ELSE Envelope(eventName, args)

(***************************************************************************)
(* App.handleWSMessage, the onMessage observer of the client               *)
(***************************************************************************)
StrLog == <<"l","o","g">>
StrWarn == <<"w","a","r","n">>
StrError == <<"e","r","r","o","r">>
StrName == <<"n","a","m","e">>
StrFirmware == <<"f","i","r","m","w","a","r","e">>
StrUptime == <<"u","p","t","i","m","e">>

\* the position of the last colon, counted from 1; 0 when there is none
LastIndexOfColon(text) ==
    IF \E i \in 1..Len(text) : text[i] = ":"
    THEN CHOOSE i \in 1..Len(text) : text[i] = ":" /\ \A m \in (i + 1)..Len(text) : text[m] # ":"
    ELSE 0

\* text.indexOf(":"), counted from 1; 0 when there is none
IndexOfColon(text) ==
    IF \E i \in 1..Len(text) : text[i] = ":"
    THEN CHOOSE i \in 1..Len(text) : text[i] = ":" /\ \A m \in 1..(i - 1) : text[m] # ":"
    ELSE 0

\* text.slice(0, idx) and text.slice(idx + 1)
KeyOf(text) == SubSeq(text, 1, IndexOfColon(text) - 1)
ValOf(text) == SubSeq(text, IndexOfColon(text) + 1, Len(text))

\* the Log calls handleWSMessage(text) makes
HandleLogs(text) ==
    IF IndexOfColon(text) = 0 THEN <<[via |-> "raw", line |-> text]>>
    ELSE LET key == KeyOf(text)
             val == ValOf(text)
         IN CASE key \in {StrName, StrFirmware, StrUptime} -> << >>
              [] key = StrLog -> <<[via |-> "info", line |-> val]>>
              [] key = StrWarn -> <<[via |-> "warn", line |-> val]>>
              [] key = StrError -> <<[via |-> "error", line |-> val]>>
              [] OTHER -> <<[via |-> "raw", line |-> key \o <<":">> \o val]>>

\* the UI.setInstanceInfo calls handleWSMessage(text) makes
HandleInfo(text) ==
    IF IndexOfColon(text) # 0 /\ KeyOf(text) \in {StrName, StrFirmware, StrUptime}
    THEN <<[key |-> KeyOf(text), val |-> ValOf(text)]>>
    ELSE << >>

\* what a message notification leaves behind: onMessage(text) runs
\* App.handleWSMessage(text)
MessageLast(kind, d, text) ==
    [Quiet EXCEPT !.op = "message", !.obs = "onMessage", !.from = kind,
                  !.data = d, !.delivered = <<text>>,
                  !.log = HandleLogs(text), !.info = HandleInfo(text)]

\* ws "message"
WsMessage(t, D) ==
    /\ IsWs(t) /\ transports[t].state = "OPEN"
    /\ \E d \in D : last' = MessageLast("websocket", d, WsText(d))
    /\ UNCHANGED <<clientVars, transports, timers, nextTimerId, configVars, lastCaller>>

\* ws "error"
WsError(t) ==
    /\ IsWs(t) /\ transports[t].state # "CLOSED"
    /\ last' = [Quiet EXCEPT !.op = "error", !.obs = "onError"]
    /\ UNCHANGED <<clientVars, transports, timers, nextTimerId, configVars, lastCaller>>

\* the tail of the close / disconnect / connect_error handlers
MaybeReschedule(J) ==
    IF ShouldReconnect(manualClose, autoReconnect)
    THEN \E j \in J : ScheduleReconnect(timers, j)
    ELSE UNCHANGED <<timers, reconnectTimer, nextTimerId, attempt>>

\* ws "close"
WsClose(t, J) ==
    /\ IsWs(t) /\ transports[t].state # "CLOSED"
    /\ transports' = SetState(t, "CLOSED")
    /\ MaybeReschedule(J)
    /\ last' = [Quiet EXCEPT !.op = "close", !.obs = "onClose",
                             !.from = transports[t].kind,
                             !.was = transports[t].state,
                             !.sched = (nextTimerId' # nextTimerId),
                             !.replaced = Rescheduled(timers),
                             !.attemptBefore = attempt]
    /\ UNCHANGED <<connection, connectionType, manualClose, configVars, lastCaller>>

(***************************************************************************)
(* Transport notifications: Socket.IO                                      *)
(***************************************************************************)
\* socket "connect"
SioConnect(t) ==
    /\ IsSio(t) /\ transports[t].state = "CONNECTING"
    /\ transports' = SetState(t, "OPEN")
    /\ attempt' = OpenAttempt(attempt)
    /\ last' = [Quiet EXCEPT !.op = "open", !.obs = "onOpen", !.attemptBefore = attempt]
    /\ UNCHANGED <<connection, connectionType, reconnectTimer, manualClose, timers,
                   nextTimerId, configVars, lastCaller>>

\* socket "message"; onAny leaves an event of this name alone
SioMessage(t, D) ==
    /\ IsSio(t) /\ transports[t].state = "OPEN"
    /\ \E d \in D :
         last' = [MessageLast("socketio", d, SioText(d)) EXCEPT !.event = StrMessage,
                                                                !.args = <<d>>]
    /\ UNCHANGED <<clientVars, transports, timers, nextTimerId, configVars, lastCaller>>

\* a custom event on an open socket: socket.onAny
SioCustomEvent(t, e, args) ==
    /\ IsSio(t) /\ transports[t].state = "OPEN"
    /\ last' = [MessageLast("socketio", [type |-> "none", body |-> << >>],
                            CustomText(e, args))
                  EXCEPT !.event = e, !.args = args]
    /\ UNCHANGED <<clientVars, transports, timers, nextTimerId, configVars, lastCaller>>

\* socket "error"
SioError(t) ==
    /\ IsSio(t) /\ transports[t].state = "OPEN"
    /\ last' = [Quiet EXCEPT !.op = "error", !.obs = "onError"]
    /\ UNCHANGED <<clientVars, transports, timers, nextTimerId, configVars, lastCaller>>

\* socket "disconnect": the server or the network ended an open socket
SioDisconnect(t, J) ==
    /\ IsSio(t) /\ transports[t].state = "OPEN"
    /\ transports' = SetState(t, "CLOSED")
    /\ MaybeReschedule(J)
    /\ last' = [Quiet EXCEPT !.op = "close", !.obs = "onClose",
                             !.from = transports[t].kind,
                             !.was = transports[t].state,
                             !.sched = (nextTimerId' # nextTimerId),
                             !.replaced = Rescheduled(timers),
                             !.attemptBefore = attempt]
    /\ UNCHANGED <<connection, connectionType, manualClose, configVars, lastCaller>>

\* socket "connect_error": the attempt failed (reconnection is off)
SioConnectError(t, J) ==
    /\ IsSio(t) /\ transports[t].state = "CONNECTING"
    /\ transports' = SetState(t, "CLOSED")
    /\ MaybeReschedule(J)
    /\ last' = [Quiet EXCEPT !.op = "connect_error",
                             !.sched = (nextTimerId' # nextTimerId),
                             !.replaced = Rescheduled(timers),
                             !.attemptBefore = attempt]
    /\ UNCHANGED <<connection, connectionType, manualClose, configVars, lastCaller>>

(***************************************************************************)
(* send(text)                                                              *)
(***************************************************************************)
JsonLed == "{\"event\":\"led\",\"data\":\"on\"}"

Texts == {"ping:1", JsonLed}

\* JSON.parse(text).event, "none" when the text is no JSON or has no event
JsonEvent(text) == IF text = JsonLed THEN "led" ELSE "none"

\* data.data || data of the parsed text
JsonData(text) == IF text = JsonLed THEN "on" ELSE text

\* what send() emits on a Socket.IO socket
SioEmit(t, text) ==
    IF JsonEvent(text) # "none"
    THEN [t |-> t, channel |-> JsonEvent(text), payload |-> JsonData(text)]
    ELSE [t |-> t, channel |-> "message", payload |-> text]

\* what send() hands to a WebSocket
WsSend(t, text) == [t |-> t, channel |-> "send", payload |-> text]

\* this.connection.connected; undefined (falsy) on a WebSocket
SioConnected(tr) == tr.kind = "socketio" /\ tr.state = "OPEN"

\* send() accepting a WebSocket that is still connecting
WsReadyOpenOrConnecting(tr) == tr.kind = "websocket" /\ tr.state \in {"OPEN", "CONNECTING"}

\* this.connection.readyState === WebSocket.OPEN; readyState is undefined on
\* a Socket.IO socket
WsReadyOpen(tr) == tr.kind = "websocket" /\ tr.state = "OPEN"

\* send() handing the text to whatever transport it holds, open or not
SendHandsUnchecked(text) ==
    IF connection = 0 THEN << >>
    ELSE IF connectionType = "socketio" THEN <<SioEmit(connection, text)>>
    ELSE <<WsSend(connection, text)>>

\* whether send() reaches the transport's native send
SendPasses ==
    /\ connection # 0
    /\ \/ connectionType = "socketio" /\ SioConnected(transports[connection])
       \/ connectionType = "websocket" /\ WsReadyOpen(transports[connection])

\* what send(text) hands to the transport
SendHands(text) ==
    IF ~SendPasses THEN << >>
    ELSE IF connectionType = "socketio" THEN <<SioEmit(connection, text)>>
    ELSE <<WsSend(connection, text)>>

\* whether send() logs a warning: every failing branch but the last return
SendWarns ==
    /\ ~SendPasses
    /\ connection = 0 \/ connectionType \in {"socketio", "websocket"}

\* Log.tx(text), reached only past the native send
SendTx(text) == IF SendPasses THEN <<text>> ELSE << >>

\* the value send() returns
SendReturns == SendPasses

Send(text) ==
    /\ last' = [Quiet EXCEPT !.op = "send",
                             !.ret = IF SendReturns THEN "true" ELSE "false",
                             !.warn = SendWarns, !.text = text,
                             !.handed = SendHands(text),
                             !.tx = SendTx(text)]
    /\ UNCHANGED <<clientVars, transports, timers, nextTimerId, configVars, lastCaller>>

(***************************************************************************)
(* isOpen()                                                                *)
(***************************************************************************)
\* an isOpen() that answers for every transport the client created
IsOpenAnyTransport ==
    IF \E t \in TransportIds : transports[t].state = "OPEN" THEN "true" ELSE "false"

\* the value isOpen() returns; a WebSocket has no property connected and a
\* Socket.IO socket no readyState
IsOpenResult ==
    IF connection = 0 THEN "false"
    ELSE IF connectionType = "socketio"
         THEN IF transports[connection].kind # "socketio" THEN "undefined"
              ELSE IF SioConnected(transports[connection]) THEN "true" ELSE "false"
    ELSE IF connectionType = "websocket"
         THEN IF WsReadyOpen(transports[connection]) THEN "true" ELSE "false"
    ELSE "false"

IsOpen ==
    /\ last' = [Quiet EXCEPT !.op = "isOpen", !.ret = IsOpenResult]
    /\ UNCHANGED <<clientVars, transports, timers, nextTimerId, configVars, lastCaller>>

(***************************************************************************)
(* Configuration changes (UI.init listeners, Actions)                      *)
(***************************************************************************)
SetServerUrl(u) ==
    /\ u # serverUrl
    /\ serverUrl' = u
    /\ last' = [Quiet EXCEPT !.op = "config"]
    /\ UNCHANGED <<clientVars, transports, timers, nextTimerId, autoReconnect,
                   reconnectDelay, ioLoaded, registry, infoProbe, lastCaller>>

\* App.state.autoReconnect = !App.state.autoReconnect
ToggleAutoReconnect ==
    /\ autoReconnect' = ~autoReconnect
    /\ last' = [Quiet EXCEPT !.op = "config"]
    /\ UNCHANGED <<clientVars, transports, timers, nextTimerId, serverUrl,
                   reconnectDelay, ioLoaded, registry, infoProbe, lastCaller>>

\* the values typed into the reconnect-delay field, Number(value) || 0
RawDelays == {0, 70000}

\* App.state.reconnectDelay = clamp(Number(el.reconnectDelay.value) || 0, 250, 60000)
SetReconnectDelay(raw) ==
    /\ Clamp(raw, MinDelay, MaxDelay) # reconnectDelay
    /\ reconnectDelay' = Clamp(raw, MinDelay, MaxDelay)
    /\ last' = [Quiet EXCEPT !.op = "config"]
    /\ UNCHANGED <<clientVars, transports, timers, nextTimerId, serverUrl,
                   autoReconnect, ioLoaded, registry, infoProbe, lastCaller>>

(***************************************************************************)
(* App.connect() with its /info probe, and the availability polling        *)
(***************************************************************************)
\* Validators.url: /^(wss?|https?):\/\/([^\s:\/]+)(:\d+)?(\/[^\s]*)?$/
ValidatorUrl(v) ==
    /\ \/ StartsWith(v, StrWs) \/ StartsWith(v, StrWss)
       \/ StartsWith(v, StrHttp) \/ StartsWith(v, StrHttps)
    /\ LET a == Authority(v) IN
         /\ HostOf(a) # << >>
         /\ Len(a) > Len(HostOf(a)) => Len(PortOf(a)) >= 1
         /\ \A i \in 1..Len(PortOf(a)) : DigitValue(PortOf(a)[i]) >= 0

\* url.startsWith('ws://') || url.startsWith('wss://')
ProbesInfo(url) == StartsWith(url, StrWs) \/ StartsWith(url, StrWss)

\* how the awaited HTTPClient.get(url, "/info") settles
ProbeOutcomes == {"2xx", "non2xx", "threw"}

\* an App.connect() that gives up when the probe fails
ProbeConnectsOnSuccess(outcome) == outcome = "2xx"

\* whether App.connect() goes on to App.ws.connect() once the probe settled
ProbeConnects(outcome) == TRUE

\* the texts typed into the server-url field
TypedUrls == (Targets \ {UrlEmpty}) \cup {UrlGarbage}

\* App.connect() up to its await: validation, App.state.serverUrl = url, and,
\* for a target that is not probed, App.ws.connect() at once; one App.connect()
\* awaits its probe at a time
AppConnect(u) ==
    IF ~ValidatorUrl(u)
    THEN /\ last' = [Quiet EXCEPT !.op = "appconnect", !.warn = TRUE]
         /\ UNCHANGED <<clientVars, transports, timers, nextTimerId, configVars,
                        lastCaller>>
    ELSE IF ProbesInfo(u)
    THEN /\ infoProbe = "idle"
         /\ serverUrl' = u
         /\ infoProbe' = "pending"
         /\ last' = [Quiet EXCEPT !.op = "appconnect"]
         /\ lastCaller' = [lastCaller EXCEPT !.op = "appconnect"]
         /\ UNCHANGED <<clientVars, transports, timers, nextTimerId, autoReconnect,
                        reconnectDelay, ioLoaded, registry>>
    ELSE /\ serverUrl' = u
         /\ ConnectFor(u, timers, 0)
         /\ last' = ConnectLastFor("connect", u)
         /\ lastCaller' = [op |-> "connect", effective |-> "connect",
                           n |-> 0, pending |-> FALSE, threw |-> FALSE]
         /\ UNCHANGED <<autoReconnect, reconnectDelay, ioLoaded, registry, infoProbe>>

\* the probe settles and App.connect() runs on to App.ws.connect()
ProbeSettles(outcome) ==
    /\ infoProbe = "pending"
    /\ infoProbe' = "idle"
    /\ IF ProbeConnects(outcome)
       THEN /\ ConnectBody(timers, 0)
            /\ last' = [ConnectLast("connect") EXCEPT !.probe = outcome]
            /\ lastCaller' = [op |-> "connect",
                              effective |-> IF ConnectOutcome(serverUrl) = "nourl"
                                            THEN lastCaller.effective ELSE "connect",
                              n |-> 0, pending |-> FALSE, threw |-> FALSE]
       ELSE /\ last' = [Quiet EXCEPT !.op = "probe", !.probe = outcome]
            /\ UNCHANGED <<clientVars, transports, timers, nextTimerId, lastCaller>>
    /\ UNCHANGED <<serverUrl, autoReconnect, reconnectDelay, ioLoaded, registry>>

\* one round of the instance availability polling: a failure only marks the
\* instance in the UI
Poll(outcome) ==
    /\ serverUrl # UrlEmpty
    /\ last' = [Quiet EXCEPT !.op = "poll", !.probe = outcome,
                             !.warn = (outcome # "2xx")]
    /\ UNCHANGED <<clientVars, transports, timers, nextTimerId, configVars, lastCaller>>

(***************************************************************************)
(* Actions.define and Actions.run                                          *)
(***************************************************************************)
\* the handlers the page registers
Handlers == {"h1", "h2"}

\* how a handler ends: it returns (or its promise resolves), it throws or
\* rejects with an Error, or it throws or rejects with null or undefined
HandlerOutcomes == {"returns", "error", "nullish"}

\* registry.set(name, handler)
Define(name, h) ==
    /\ registry[name] # h
    /\ registry' = [registry EXCEPT ![name] = h]
    /\ last' = [Quiet EXCEPT !.op = "define", !.name = name]
    /\ UNCHANGED <<clientVars, transports, timers, nextTimerId, serverUrl,
                   autoReconnect, reconnectDelay, ioLoaded, infoProbe, lastCaller>>

\* what the catch block of run does with the value e it caught: it logs
\* e.message, and reading a property of null or undefined throws
RunSettles(outcome) == IF outcome = "nullish" THEN "rejected" ELSE "resolved"

\* the Log.action calls of run
RunLogs(name, outcome) ==
    IF registry[name] = "none" THEN <<[via |-> "warn", line |-> << >>]>>
    ELSE IF outcome = "error" THEN <<[via |-> "error", line |-> << >>]>>
    ELSE << >>

\* Actions.run(name, ctx, el) with a handler that ends as outcome says
Run(name, outcome) ==
    /\ last' = [Quiet EXCEPT !.op = "run", !.name = name,
                             !.ran = IF registry[name] = "none" THEN << >>
                                     ELSE <<registry[name]>>,
                             !.log = RunLogs(name, outcome),
                             !.ret = IF registry[name] = "none" THEN "resolved"
                                     ELSE RunSettles(outcome)]
    /\ UNCHANGED <<clientVars, transports, timers, nextTimerId, configVars, lastCaller>>

(***************************************************************************)
(* The specifications                                                      *)
(***************************************************************************)
\* the jitter the lifecycle specification draws
NoJitter == {0}

\* connect / disconnect, the reconnect timer and the transports' lifecycle
Lifecycle(J) ==
    \/ Connect(J)
    \/ Disconnect
    \/ TimerFire(J)
    \/ \E t \in TransportIds : WsOpen(t)
    \/ \E t \in TransportIds : WsClose(t, J)
    \/ \E t \in TransportIds : SioConnect(t)
    \/ \E t \in TransportIds : SioDisconnect(t, J)
    \/ \E t \in TransportIds : SioConnectError(t, J)

\* traffic and error notifications, which leave the lifecycle alone
Traffic ==
    \/ \E text \in Texts : Send(text)
    \/ IsOpen
    \/ \E t \in TransportIds : WsMessage(t, WsData)
    \/ \E t \in TransportIds : WsError(t)
    \/ \E t \in TransportIds : SioMessage(t, WsData)
    \/ \E t \in TransportIds : SioError(t)

\* the lifecycle under every configured target and auto-reconnect setting
Next ==
    \/ Lifecycle(NoJitter)
    \/ \E u \in Targets : SetServerUrl(u)
    \/ ToggleAutoReconnect

Spec == Init /\ [][Next]_vars

\* the lifecycle with traffic on the transports
NextTraffic ==
    \/ Lifecycle(NoJitter)
    \/ \E u \in Targets : SetServerUrl(u)
    \/ Traffic

SpecTraffic == Init /\ [][NextTraffic]_vars

\* the lifecycle with the reconnect delay in full: both ends of the jitter
\* range and every configured base delay
NextDelay ==
    \/ Lifecycle(JitterValues)
    \/ ToggleAutoReconnect
    \/ \E raw \in RawDelays : SetReconnectDelay(raw)

SpecDelay == Init /\ [][NextDelay]_vars

\* the lifecycle driven through App.connect(), with the /info probe and the
\* polling settling every way they can
NextProbe ==
    \/ Lifecycle(NoJitter)
    \/ \E u \in TypedUrls : AppConnect(u)
    \/ \E o \in ProbeOutcomes : ProbeSettles(o)
    \/ \E o \in ProbeOutcomes : Poll(o)

SpecProbe == Init /\ [][NextProbe]_vars

\* a client whose last a connection attempts failed when the transport was
\* constructed (the target of those attempts had a port out of range) and
\* whose last reconnect timer found the target empty: _attempt stands at a,
\* no transport was created, no timer is pending, and the handle
\* _reconnectTimer names a timer that has fired, which clearTimeout
\* ignores as it ignores null. The target has since been set to one that
\* can be opened.
InitBackoff ==
    /\ connection = 0
    /\ reconnectTimer = 0
    /\ manualClose = FALSE
    /\ attempt \in 0..MaxAttempt
    /\ serverUrl \in {UrlWs, UrlHttps}
    /\ connectionType = IF attempt = 0 THEN "null" ELSE DetectConnectionType(serverUrl)
    /\ autoReconnect = TRUE
    /\ reconnectDelay = DefaultDelay
    /\ ioLoaded = TRUE
    /\ infoProbe = "idle"
    /\ registry = BuiltIns
    /\ transports = << >>
    /\ timers = {}
    /\ nextTimerId = 1
    /\ lastCaller = [op |-> "none", effective |-> "none", n |-> 0, pending |-> FALSE, threw |-> FALSE]
    /\ last = Quiet

\* the lifecycle from every value of the attempt counter
NextBackoff == Lifecycle(NoJitter)

SpecBackoff == InitBackoff /\ [][NextBackoff]_vars

\* the registry of actions, defined and run in any order
NextActions ==
    \/ \E n \in ActionNames : \E h \in Handlers : Define(n, h)
    \/ \E n \in ActionNames : \E o \in HandlerOutcomes : Run(n, o)

SpecActions == Init /\ [][NextActions]_vars

\* a client constructed in a page where the Socket.IO library did or did not
\* load
InitRetry ==
    /\ connection = 0
    /\ connectionType = "null"
    /\ reconnectTimer = 0
    /\ manualClose = FALSE
    /\ attempt = 0
    /\ serverUrl \in {UrlWs, UrlHttps, UrlWsBadPort}
    /\ autoReconnect = TRUE
    /\ reconnectDelay = DefaultDelay
    /\ ioLoaded \in BOOLEAN
    /\ infoProbe = "idle"
    /\ registry = BuiltIns
    /\ transports = << >>
    /\ timers = {}
    /\ nextTimerId = 1
    /\ lastCaller = [op |-> "none", effective |-> "none", n |-> 0, pending |-> FALSE, threw |-> FALSE]
    /\ last = Quiet

\* the lifecycle with and without the Socket.IO library
NextRetry == Lifecycle(NoJitter)

SpecRetry == InitRetry /\ [][NextRetry]_vars

\* a client constructed over a WebSocket or a Socket.IO target
InitMessages ==
    /\ connection = 0
    /\ connectionType = "null"
    /\ reconnectTimer = 0
    /\ manualClose = FALSE
    /\ attempt = 0
    /\ serverUrl \in {UrlWs, UrlHttps}
    /\ autoReconnect = TRUE
    /\ reconnectDelay = DefaultDelay
    /\ ioLoaded = TRUE
    /\ infoProbe = "idle"
    /\ registry = BuiltIns
    /\ transports = << >>
    /\ timers = {}
    /\ nextTimerId = 1
    /\ lastCaller = [op |-> "none", effective |-> "none", n |-> 0, pending |-> FALSE, threw |-> FALSE]
    /\ last = Quiet

\* the lifecycle with every inbound payload on the open transports
NextMessages ==
    \/ Lifecycle(NoJitter)
    \/ \E t \in TransportIds : WsMessage(t, Payloads)
    \/ \E t \in TransportIds : SioMessage(t, Payloads)
    \/ \E t \in TransportIds : \E e \in CustomEvents : \E a \in ArgLists :
           SioCustomEvent(t, e, a)

SpecMessages == InitMessages /\ [][NextMessages]_vars

\* a client constructed over any of the classification targets
InitClassify ==
    /\ connection = 0
    /\ connectionType = "null"
    /\ reconnectTimer = 0
    /\ manualClose = FALSE
    /\ attempt = 0
    /\ serverUrl \in ClassifyTargets
    /\ autoReconnect = TRUE
    /\ reconnectDelay = DefaultDelay
    /\ ioLoaded = TRUE
    /\ infoProbe = "idle"
    /\ registry = BuiltIns
    /\ transports = << >>
    /\ timers = {}
    /\ nextTimerId = 1
    /\ lastCaller = [op |-> "none", effective |-> "none", n |-> 0, pending |-> FALSE, threw |-> FALSE]
    /\ last = Quiet

\* the lifecycle over one fixed target: every connect(), explicit or
\* timer-driven and in whatever client state, classifies the same target
NextClassify == Lifecycle(NoJitter)

SpecClassify == InitClassify /\ [][NextClassify]_vars

(***************************************************************************)
(* Properties                                                              *)
(***************************************************************************)

\* C1: at most one transport created by the client is connecting or open,
\* whatever sequence of connect() and disconnect() calls, notifications and
\* timer firings led here.
AtMostOneLiveTransport == Cardinality(LiveIds) <= 1

\* C2: from a disconnect() until the next explicit connect() call no reconnect
\* timer is pending, no timer-driven connect() runs and no transport is
\* created, whatever notifications arrive.
DisconnectIsFinal ==
    lastCaller.op = "disconnect" =>
        /\ timers = {}
        /\ last.op # "timer"
        /\ Len(transports) = lastCaller.n

\* a disconnect() that found a reconnect timer pending, followed by the close
\* notification of a transport
DisconnectCancelledTimer ==
    /\ lastCaller.op = "disconnect"
    /\ lastCaller.pending
    /\ last.op = "close"

\* C3: right after an unintended close notification (autoReconnect true,
\* _manualClose false) exactly one reconnect timer is pending, and its delay d
\* satisfies baseDelay <= d <= baseDelay + 250 + min(8000, attemptCount * 300)
\* for the counter value before the scheduling.
ReconnectDelayInRange ==
    (last.op = "close" /\ ~manualClose /\ autoReconnect) =>
        /\ Cardinality(timers) = 1
        /\ \A tm \in timers :
             /\ tm.id = reconnectTimer
             /\ reconnectDelay <= tm.delay
             /\ tm.delay <= reconnectDelay + JitterRange
                              + Min(BackoffCap, last.attemptBefore * BackoffStep)

\* an unintended close at attempt count 1 whose timer takes the largest jitter
UnintendedCloseSecondAttempt ==
    /\ last.op = "close" /\ ~manualClose /\ autoReconnect
    /\ last.attemptBefore = 1
    /\ \E tm \in timers : tm.delay = reconnectDelay + (JitterRange - 1) + BackoffStep

\* C4: a close notification emits onClose and schedules a reconnect exactly
\* when _manualClose is false and autoReconnect is true; and no step ever
\* schedules a reconnect timer while autoReconnect is false.
ReconnectOnlyWhenEnabled ==
    /\ last.op = "close" =>
         /\ last.obs = "onClose"
         /\ last.sched <=> (~manualClose /\ autoReconnect)
    /\ last.sched => autoReconnect

\* C5: _manualClose is true only if the most recent explicit caller operation
\* was disconnect().
ManualCloseOnlyAfterDisconnect == manualClose => lastCaller.op = "disconnect"

\* C5, as amended: _manualClose is true only if no explicit connect() with a
\* non-empty target followed the most recent disconnect(); and no reconnect
\* timer is pending while it is true, so a timer-driven connect() never clears
\* it.
ManualCloseUntilEffectiveConnect ==
    /\ manualClose => lastCaller.effective = "disconnect"
    /\ manualClose => timers = {}

\* disconnect() followed by an explicit connect() with an empty target
ManualCloseAfterEmptyConnect ==
    /\ manualClose
    /\ lastCaller.op = "connect"
    /\ lastCaller.effective = "disconnect"

\* C6: right after an open notification and right after an explicit connect()
\* with a non-empty target (here: one that opened a transport) the reconnect
\* state is {0, none, false}.
ReconnectStateReset ==
    (last.op = "open" \/ (last.op = "connect" /\ ~last.warn /\ ~last.sched)) =>
        /\ attempt = 0
        /\ timers = {}
        /\ ~manualClose

\* C7: send(text) with no transport, or with a held transport that is not
\* open, returns false, logs no tx, hands nothing to the transport and warns.
SendRejectedWhenNotOpen ==
    (last.op = "send" /\ (connection = 0 \/ transports[connection].state # "OPEN")) =>
        /\ last.ret = "false"
        /\ last.tx = << >>
        /\ last.handed = << >>
        /\ last.warn

\* a send() on a transport that is still connecting
SendOnConnecting ==
    /\ last.op = "send"
    /\ connection # 0
    /\ transports[connection].state = "CONNECTING"
    /\ last.ret = "false"
    /\ last.warn

\* C8: send(text) while the held transport is open returns true, hands to the
\* transport exactly once and logs exactly one tx carrying the text.
SendDeliversWhenOpen ==
    (last.op = "send" /\ connection # 0 /\ transports[connection].state = "OPEN") =>
        /\ last.ret = "true"
        /\ Len(last.handed) = 1
        /\ last.tx = <<last.text>>

\* C9: nothing is ever handed to a transport except by a send() call that
\* returned true, which hands its own text once to the held transport; a
\* send() that returned false hands nothing, and no later step (open, close,
\* timer, connect) hands anything.
NoQueuedText ==
    /\ last.op = "send" /\ last.ret = "false" => last.handed = << >>
    /\ last.handed # << >> =>
         /\ last.op = "send"
         /\ last.ret = "true"
         /\ last.handed \in {<<WsSend(connection, last.text)>>,
                             <<SioEmit(connection, last.text)>>}

\* a send() rejected after disconnect() dropped the transport
SendDroppedAfterDisconnect ==
    /\ last.op = "send"
    /\ last.ret = "false"
    /\ connection = 0
    /\ Len(transports) > 0
    /\ last.handed = << >>

\* C10: disconnect() sets _manualClose, cancels the pending timer, closes the
\* held transport exactly when it is open or connecting, nulls the reference,
\* and leaves no transport of the client open or connecting.
DisconnectClosesEverything ==
    last.op = "disconnect" =>
        /\ manualClose
        /\ timers = {}
        /\ last.closed <=> last.held \in {"OPEN", "CONNECTING"}
        /\ connection = 0
        /\ LiveIds = {}

\* C11: disconnect() on a client that holds no transport (connect() never
\* called, or already idle) calls no observer, does not throw, creates no
\* transport and no timer, and changes nothing except that _manualClose
\* becomes true and the timer named by the handle is cancelled.
DisconnectIdleFrame ==
    [][(last'.op = "disconnect" /\ connection = 0) =>
          /\ last'.obs = "none"
          /\ ~last'.threw
          /\ ~last'.closed
          /\ transports' = transports
          /\ nextTimerId' = nextTimerId
          /\ timers' = ClearTimeout(timers, reconnectTimer)
          /\ manualClose'
          /\ connection' = 0
          /\ connectionType' = connectionType
          /\ attempt' = attempt
          /\ reconnectTimer' = reconnectTimer
          /\ configVars' = configVars]_vars

\* disconnect() on a client on which connect() was never called
DisconnectOnFreshClient ==
    /\ last.op = "disconnect"
    /\ last.held = "none"
    /\ transports = << >>
    /\ connectionType = "null"
    /\ manualClose

\* C12: connect() with an empty target, called by the caller or by the
\* reconnect timer, logs one warning and does nothing else: no transport is
\* created, no timer is scheduled, and connection, connectionType,
\* _manualClose, _attempt and the pending reconnect timer stay as they were.
ConnectEmptyTargetFrame ==
    [][(last'.op \in {"connect", "timer"} /\ serverUrl = UrlEmpty) =>
          /\ last'.warn
          /\ ~last'.sched
          /\ last'.obs = "none"
          /\ transports' = transports
          /\ nextTimerId' = nextTimerId
          /\ clientVars' = clientVars
          /\ (last'.op = "connect" => timers' = timers)
          /\ timers' \subseteq timers]_vars

\* an explicit connect() with an empty target while a reconnect timer is
\* pending and a closed transport is still held
ConnectEmptyWhilePending ==
    /\ last.op = "connect"
    /\ last.warn
    /\ serverUrl = UrlEmpty
    /\ timers # {}
    /\ connection # 0
    /\ attempt > 0

\* C13: a connect() whose transport constructor throws calls onError,
\* schedules a reconnect exactly when a close notification would (_manualClose
\* false and autoReconnect true), and returns without throwing.
ConstructionFailureLikeClose ==
    (last.op \in {"connect", "timer"} /\ ConnectOutcome(serverUrl) = "threw") =>
        /\ last.obs = "onError"
        /\ last.sched <=> ShouldReconnect(manualClose, autoReconnect)
        /\ ~last.threw

\* C14: no call of connect(), disconnect() or send() throws to its caller,
\* in any reachable state and for either transport kind.
NoOperationThrows == ~last.threw

\* C15: the kind connect() derives depends on the target alone: whatever the
\* client's state and however often it is computed, "ws://h/x" and every
\* other target that is neither HTTP-family nor carries the socket.io hint
\* (unparsable ones included) is a WebSocket target, and "https://h" and the
\* other HTTP-family or hinted targets are Socket.IO targets.
ClassifyByTargetAlone ==
    last.op \in {"connect", "timer"} =>
        /\ serverUrl = UrlWs => connectionType = "websocket"
        /\ serverUrl = UrlHttps => connectionType = "socketio"
        /\ serverUrl \in LineSocketTargets => connectionType = "websocket"
        /\ serverUrl \in EventSocketTargets => connectionType = "socketio"

\* the second timer-driven connect() in a row classifying text that is no URL
ClassifyUnparsableAgain ==
    /\ last.op = "timer"
    /\ serverUrl = UrlGarbage
    /\ connectionType = "websocket"
    /\ attempt = 2

\* C16: a text payload t arriving on a WebSocket, the empty text included,
\* makes exactly one onMessage call, and its argument is t unchanged.
WsMessageVerbatim ==
    (last.op = "message" /\ last.from = "websocket" /\ last.data.type = "text") =>
        /\ last.obs = "onMessage"
        /\ last.delivered = <<last.data.body>>

\* the empty text arriving on a WebSocket
WsEmptyTextDelivered ==
    /\ last.op = "message"
    /\ last.from = "websocket"
    /\ last.data = TextPayload(TxtEmpty)
    /\ last.delivered = <<TxtEmpty>>

ProbeFailureHarmless ==
    [][/\ (infoProbe = "pending" /\ infoProbe' = "idle") =>
            /\ last'.op = "connect"
            /\ ConnectBody(timers, 0)
       /\ last'.op = "poll" =>
            UNCHANGED <<clientVars, transports, timers, nextTimerId>>]_vars

\* App.connect() whose probe threw, gone on to open a WebSocket
ConnectedAfterProbeThrew ==
    /\ last.op = "connect"
    /\ last.probe = "threw"
    /\ connection # 0
    /\ transports[connection].state = "CONNECTING"
    /\ connection = Len(transports)

\* C19: a scheduleReconnect call raises the attempt counter by exactly one and
\* sets a timer whose delay, jitter left out, is the base delay plus
\* min(8000, a * 300) for the counter value a before the increment: 0, 300
\* and 600 ms at a = 0, 1 and 2; the backoff never exceeds 8000 ms and never
\* decreases as the counter grows.
BackoffLinearCapped ==
    /\ last.sched =>
         /\ attempt = last.attemptBefore + 1
         /\ \E tm \in timers :
              /\ tm.id = reconnectTimer
              /\ tm.delay = reconnectDelay + Min(8000, last.attemptBefore * 300)
              /\ tm.delay - reconnectDelay <= 8000
              /\ last.attemptBefore = 0 => tm.delay - reconnectDelay = 0
              /\ last.attemptBefore = 1 => tm.delay - reconnectDelay = 300
              /\ last.attemptBefore = 2 => tm.delay - reconnectDelay = 600
    /\ \A a \in 0..MaxAttempt :
         /\ Backoff(a) <= 8000
         /\ Backoff(a) <= Backoff(a + 1)

\* the second unintended close in a row, with no open in between, of a
\* client whose counter stood at 1: backoff 600 ms
ThirdBackoffStep ==
    /\ last.op = "close"
    /\ last.sched
    /\ last.attemptBefore = 2
    /\ attempt = 3
    /\ Len(transports) = 2
    /\ \E tm \in timers : tm.delay = reconnectDelay + 600

\* C20: at most one reconnect timer is pending in every reachable state, and
\* it is the one the handle names: whatever close, connect_error and
\* construction-failure steps follow one another, no two timers are left to
\* fire connect().
AtMostOnePendingTimer ==
    /\ Cardinality(timers) <= 1
    /\ \A tm \in timers : tm.id = reconnectTimer

\* a scheduleReconnect call made while the previous timer was still pending
ReschedulingReplacedTimer ==
    /\ last.sched
    /\ last.replaced
    /\ Cardinality(timers) = 1

\* C21: the first unintended close after a successful open is scheduled with
\* backoff component 0: when the only transport the client ever created
\* closes while open and a reconnect is scheduled, the attempt counter the
\* delay is computed from is 0.
FirstCloseAfterOpenAtZero ==
    (last.op = "close" /\ last.sched /\ last.was = "OPEN" /\ Len(transports) = 1) =>
        /\ last.attemptBefore = 0
        /\ \E tm \in timers : tm.delay = reconnectDelay

\* C22: an error notification of a transport, of either kind and the
\* connect_error of a Socket.IO socket included, calls onError and schedules
\* no reconnect.
ErrorOnlyReports ==
    last.op \in {"error", "connect_error"} =>
        /\ last.obs = "onError"
        /\ ~last.sched

\* C23: every application-level event arriving on a Socket.IO socket, the
\* generic "message" event or a custom one, makes exactly one onMessage call;
\* a single string payload is passed unchanged, and any other payload is
\* passed as a text that carries the name of the event.
SioFoldsWithEventName ==
    (last.op = "message" /\ last.from = "socketio") =>
        /\ Len(last.delivered) = 1
        /\ SingleString(last.args) => last.delivered = <<last.args[1].body>>
        /\ ~SingleString(last.args) => Includes(last.delivered[1], last.event)

\* C23, as amended: every "message" event and every custom event arriving on
\* a Socket.IO socket makes exactly one onMessage call; a single string
\* payload is passed unchanged; a "message" event with another payload is
\* passed as the JSON text of that payload alone, without an envelope; a
\* custom event with any other argument list is passed as the JSON envelope
\* {"event": name, "data": [arguments]}.
SioFoldsEvents ==
    (last.op = "message" /\ last.from = "socketio") =>
        /\ Len(last.delivered) = 1
        /\ SingleString(last.args) => last.delivered = <<last.args[1].body>>
        /\ (last.event = StrMessage /\ last.args = <<BinaryPayload>>) =>
               last.delivered = <<<<"{","}">>>>
        /\ (last.event = StrLed /\ last.args = <<BinaryPayload>>) =>
               last.delivered = <<<<"{","\"","e","v","e","n","t","\"",":","\"","l","e","d","\"",",","\"","d","a","t","a","\"",":","[","{","}","]","}">>>>
        /\ (last.event = StrLed /\ last.args = << >>) =>
               last.delivered = <<<<"{","\"","e","v","e","n","t","\"",":","\"","l","e","d","\"",",","\"","d","a","t","a","\"",":","[","]","}">>>>
        /\ (last.event = StrLed /\ Len(last.args) = 2) =>
               last.delivered = <<<<"{","\"","e","v","e","n","t","\"",":","\"","l","e","d","\"",",","\"","d","a","t","a","\"",":","[","\"","a","\"",",","\"","b","\"","]","}">>>>

\* a custom event with two string arguments, folded into one envelope
SioTwoArgumentsFolded ==
    /\ last.op = "message"
    /\ last.from = "socketio"
    /\ last.event = StrLed
    /\ Len(last.args) = 2
    /\ Len(last.delivered) = 1
    /\ Includes(last.delivered[1], StrLed)

\* C24: every connect(), explicit or timer-driven, reads the target
\* configured at that moment: the transport it creates is of the kind of
\* that target and is opened with it, and connectionType is set from it; a
\* transport already created keeps its kind and the target it was opened
\* with.
TargetReadAtConnect ==
    [][/\ \A i \in 1..Len(transports) :
            /\ transports'[i].url = transports[i].url
            /\ transports'[i].kind = transports[i].kind
       /\ (last'.op \in {"connect", "timer"} /\ Len(transports') > Len(transports)) =>
            LET new == transports'[Len(transports')] IN
            /\ serverUrl = UrlWs =>
                  new.kind = "websocket" /\ new.url = UrlWs /\ connectionType' = "websocket"
            /\ serverUrl = UrlHttps =>
                  new.kind = "socketio" /\ new.url = UrlHttps /\ connectionType' = "socketio"
            /\ serverUrl \in {UrlWs, UrlHttps}]_vars

\* a timer-driven connect() that opened a Socket.IO socket to the target set
\* while the timer was pending, after a WebSocket to the earlier target
ReconnectedToNewTarget ==
    /\ last.op = "timer"
    /\ Len(transports) = 2
    /\ transports[1].kind = "websocket" /\ transports[1].url = UrlWs
    /\ transports[2].kind = "socketio" /\ transports[2].url = UrlHttps
    /\ connection = 2

\* C25: with a non-empty target, autoReconnect true and no disconnect() in
\* force, every unintended close and every failed connection attempt leaves
\* a reconnect timer pending, so that a new attempt follows when it fires.
RetryArmedAfterFailure ==
    (/\ last.op \in {"connect", "timer", "close", "connect_error"}
     /\ last.op \in {"connect", "timer"} => ConnectOutcome(serverUrl) # "created"
     /\ serverUrl # UrlEmpty
     /\ autoReconnect
     /\ ~manualClose) =>
        /\ timers # {}
        /\ \E tm \in timers : tm.id = reconnectTimer

\* C26: the close notification of a transport that disconnect() closed never
\* schedules a reconnect, also when connect() was called again before the
\* notification arrived: no timer is pending after it.
ClientCloseNeverReschedules ==
    (last.op = "close" /\ last.was = "CLOSING") =>
        /\ ~last.sched
        /\ timers = {}

\* C27: whenever the client holds a transport, connectionType names the kind
\* of that transport, and disconnect() closes the transport it held when
\* that was connecting or open.
KindMatchesHeld ==
    /\ connection # 0 => connectionType = transports[connection].kind
    /\ (last.op = "disconnect" /\ last.held \in {"OPEN", "CONNECTING"}) => last.closed

\* C28: from a disconnect() that returned until the next connect() call,
\* isOpen() returns false and send() returns false and hands nothing to a
\* transport, whatever notifications arrived in between; and isOpen() changes
\* nothing of the client, its transports or its timers.
ClosedAfterDisconnect ==
    [][/\ (lastCaller.op = "disconnect" /\ ~lastCaller.threw
           /\ last'.op \in {"isOpen", "send"}) =>
            /\ last'.ret = "false"
            /\ last'.handed = << >>
       /\ last'.op = "isOpen" =>
            UNCHANGED <<clientVars, transports, timers, nextTimerId, configVars>>]_vars

\* isOpen() after a disconnect() that left an earlier transport of the client
\* open
IsOpenFalseAfterDisconnect ==
    /\ last.op = "isOpen"
    /\ last.ret = "false"
    /\ lastCaller.op = "disconnect"
    /\ ~lastCaller.threw
    /\ \E t \in TransportIds : transports[t].state = "OPEN"

\* C29: when disconnect() was called while App.connect() awaited its /info
\* probe, the settling of the probe creates no transport and leaves the
\* client disconnected.
DisconnectStopsPendingConnect ==
    [][(infoProbe = "pending" /\ infoProbe' = "idle" /\ lastCaller.op = "disconnect") =>
          /\ transports' = transports
          /\ connection' = connection
          /\ manualClose']_vars

\* C30: Actions.run never rejects: for a name with no handler it logs a
\* warning and runs nothing; otherwise it runs the handler registered last
\* under the name, and only that one, and the promise it returns resolves
\* however the handler ended.
RunNeverRejects ==
    last.op = "run" =>
        /\ last.ret = "resolved"
        /\ registry[last.name] = "none" =>
              /\ last.ran = << >>
              /\ last.log = <<[via |-> "warn", line |-> << >>]>>
        /\ registry[last.name] # "none" => last.ran = <<registry[last.name]>>

====
